---- MODULE Spec2Model ----
(***************************************************************************)
(* The car-equipment data generator (src/data_generation.py) and the data  *)
(* diagnoser (src/data_diagnosis/diagnose_data.py).                         *)
(*                                                                         *)
(* A Python str is the tuple of its code points, so that str(), the        *)
(* f-string formats, str.strip(), sorted() and numeric parsing are computed *)
(* rather than assumed.  A cell of a table is a tagged value: an int, a     *)
(* float (an int promoted by the DataFrame constructor), a str or a null.   *)
(* random.Random(seed) is a 16-bit linear congruential stream: every draw   *)
(* of the generator is taken from it, in the order of the source.           *)
(***************************************************************************)
EXTENDS Integers, Sequences, FiniteSets

VARIABLES
    prog,       \* which program the process runs: "none", "generator", "diagnoser"
    last,       \* the latest call of generate_raw_car_equipment_data and its result
    prev,       \* the call before it
    run         \* the latest call of diagnose_generated_data: inputs, loading, outputs

vars == <<prog, last, prev, run>>

(* ------------------------------ bounds -------------------------------- *)

\* generate is called with rows in 0 .. MaxRows
MaxRows == 13
\* and with seed in 0 .. MaxSeed
MaxSeed == 3

(* ------------------------------ strings ------------------------------- *)

\* list(models_by_make.keys()), in insertion order
makes ==
    << <<84, 111, 121, 111, 116, 97>>,   \* 'Toyota'
       <<72, 111, 110, 100, 97>>,   \* 'Honda'
       <<70, 111, 114, 100>>,   \* 'Ford'
       <<66, 77, 87>>,   \* 'BMW'
       <<84, 101, 115, 108, 97>> >>   \* 'Tesla'

\* models_by_make[make], indexed like makes
models_by_make ==
    << << <<67, 111, 114, 111, 108, 108, 97>>, <<67, 97, 109, 114, 121>>, <<82, 65, 86, 52>>, <<80, 114, 105, 117, 115>> >>,   \* Toyota: ['Corolla', 'Camry', 'RAV4', 'Prius']
       << <<67, 105, 118, 105, 99>>, <<65, 99, 99, 111, 114, 100>>, <<67, 82, 45, 86>>, <<80, 105, 108, 111, 116>> >>,   \* Honda: ['Civic', 'Accord', 'CR-V', 'Pilot']
       << <<70, 111, 99, 117, 115>>, <<70, 117, 115, 105, 111, 110>>, <<69, 115, 99, 97, 112, 101>>, <<69, 120, 112, 108, 111, 114, 101, 114>> >>,   \* Ford: ['Focus', 'Fusion', 'Escape', 'Explorer']
       << <<51, 50, 48, 105>>, <<88, 53>>, <<88, 51>>, <<77, 51>> >>,   \* BMW: ['320i', 'X5', 'X3', 'M3']
       << <<77, 111, 100, 101, 108, 32, 83>>, <<77, 111, 100, 101, 108, 32, 51>>, <<77, 111, 100, 101, 108, 32, 88>>, <<77, 111, 100, 101, 108, 32, 89>> >> >>   \* Tesla: ['Model S', 'Model 3', 'Model X', 'Model Y']

\* trims
trims ==
    << <<66, 97, 115, 101>>,   \* 'Base'
       <<83, 112, 111, 114, 116>>,   \* 'Sport'
       <<80, 114, 101, 109, 105, 117, 109>>,   \* 'Premium'
       <<76, 105, 109, 105, 116, 101, 100>> >>   \* 'Limited'

\* colors
colors ==
    << <<82, 101, 100>>,   \* 'Red'
       <<66, 108, 117, 101>>,   \* 'Blue'
       <<66, 108, 97, 99, 107>>,   \* 'Black'
       <<87, 104, 105, 116, 101>>,   \* 'White'
       <<83, 105, 108, 118, 101, 114>>,   \* 'Silver'
       <<71, 114, 97, 121>> >>   \* 'Gray'

\* transmissions
transmissions ==
    << <<97, 117, 116, 111, 109, 97, 116, 105, 99>>,   \* 'automatic'
       <<109, 97, 110, 117, 97, 108>>,   \* 'manual'
       <<67, 86, 84>>,   \* 'CVT'
       <<100, 117, 97, 108, 32, 99, 108, 117, 116, 99, 104>> >>   \* 'dual clutch'

\* fuels
fuels ==
    << <<103, 97, 115, 111, 108, 105, 110, 101>>,   \* 'gasoline'
       <<100, 105, 101, 115, 101, 108>>,   \* 'diesel'
       <<104, 121, 98, 114, 105, 100>>,   \* 'hybrid'
       <<101, 108, 101, 99, 116, 114, 105, 99>> >>   \* 'electric'

\* infotainment
infotainment ==
    << <<66, 97, 115, 105, 99, 32, 65, 117, 100, 105, 111>>,   \* 'Basic Audio'
       <<84, 111, 117, 99, 104, 115, 99, 114, 101, 101, 110>>,   \* 'Touchscreen'
       <<80, 114, 101, 109, 105, 117, 109, 32, 65, 117, 100, 105, 111>>,   \* 'Premium Audio'
       <<78, 97, 118, 105, 103, 97, 116, 105, 111, 110>> >>   \* 'Navigation'

\* the misspelled trims
trim_misspellings ==
    << <<115, 116, 97, 110, 100, 97, 114, 116>>,   \* 'standart'
       <<80, 114, 101, 109, 117, 105, 109>>,   \* 'Premuim'
       <<108, 117, 120, 97, 114, 121>> >>   \* 'luxary'

\* the transmission variants
transmission_variants ==
    << <<65, 117, 116, 111, 109, 116, 105, 99>>,   \* 'Automtic'
       <<109, 97, 110, 117, 97, 108, 108>>,   \* 'manuall'
       <<97, 117, 116, 111, 109, 97, 116, 105, 99, 32>>,   \* 'automatic '
       <<65, 85, 84, 79, 77, 65, 84, 73, 67>> >>   \* 'AUTOMATIC'

\* the misspelled fuels
fuel_misspellings ==
    << <<103, 97, 115, 111, 108, 101, 110>>,   \* 'gasolen'
       <<100, 101, 105, 115, 101, 108>> >>   \* 'deisel'


NA == <<78, 47, 65>>   \* 'N/A'
int_name == <<105, 110, 116>>   \* 'int'
str_name == <<115, 116, 114>>   \* 'str'
float_name == <<102, 108, 111, 97, 116>>   \* 'float'

\* Python's str < str: lexicographic on code points, a proper prefix first
RECURSIVE StrLess(_, _)
StrLess(a, b) ==
    IF b = <<>> THEN FALSE
    ELSE IF a = <<>> THEN TRUE
    ELSE IF Head(a) # Head(b) THEN Head(a) < Head(b)
    ELSE StrLess(Tail(a), Tail(b))

\* sorted(set of str)
RECURSIVE Sorted(_)
Sorted(S) ==
    IF S = {} THEN <<>>
    ELSE LET m == CHOOSE x \in S : \A y \in S \ {x} : StrLess(x, y)
         IN  <<m>> \o Sorted(S \ {m})

\* the characters str.strip() removes: space, \t, \n, \v, \f, \r
Whitespace == {32, 9, 10, 11, 12, 13}

RECURSIVE LStrip(_)
LStrip(s) ==
    IF s # <<>> /\ Head(s) \in Whitespace THEN LStrip(Tail(s)) ELSE s

RECURSIVE RStrip(_)
RStrip(s) ==
    IF s # <<>> /\ s[Len(s)] \in Whitespace
    THEN RStrip(SubSeq(s, 1, Len(s) - 1)) ELSE s

\* str.strip()
Strip(s) == RStrip(LStrip(s))

\* str.lower() (ASCII)
Lower(s) == [i \in 1 .. Len(s) |-> IF s[i] \in 65 .. 90 THEN s[i] + 32 ELSE s[i]]

\* str(n) for n >= 0
RECURSIVE Str(_)
Str(n) ==
    IF n < 10 THEN <<48 + n>> ELSE Str(n \div 10) \o <<48 + (n % 10)>>

\* format(n, "03"): at least three digits, zero padded
Pad3(n) ==
    LET d == Str(n)
    IN  IF Len(d) >= 3 THEN d
        ELSE IF Len(d) = 2 THEN <<48>> \o d ELSE <<48, 48>> \o d

\* format(n, ","): thousands separated by commas
RECURSIVE Commas(_)
Commas(n) ==
    IF n < 1000 THEN Str(n)
    ELSE Commas(n \div 1000) \o <<44>> \o Pad3(n % 1000)

(* ------------------------------- cells -------------------------------- *)

IntV(n) == [k |-> "int", n |-> n, s |-> <<>>]
FloatV(n) == [k |-> "float", n |-> n, s |-> <<>>]
StrV(s) == [k |-> "str", n |-> 0, s |-> s]
Null == [k |-> "null", n |-> 0, s |-> <<>>]

\* type(val).__name__
TypeName(v) ==
    IF v.k = "int" THEN int_name
    ELSE IF v.k = "float" THEN float_name
    ELSE str_name

\* the columns of a generated row, in the order of the dict literal
Columns ==
    << "car_id", "make", "model", "model_year", "trim_level", "exterior_color",
       "transmission", "fuel_type", "infotainment_system", "msrp" >>

\* the element of a one-element set: Only({e(v) : v \in {x}}) is e(x) with x
\* computed once, as a local variable's value is
Only(S) == CHOOSE v \in S : TRUE

\* {c[i]}: the elements of a sequence
Range(q) == {q[i] : i \in 1 .. Len(q)}

\* pd.DataFrame(rows): a column without a str, with a null and with ints is
\* a float64 column (its ints are floats, its nulls NaN); any other stays
Promote(rows, c, v) ==
    IF /\ v.k = "int"
       /\ \A i \in 1 .. Len(rows) : rows[i][c].k # "str"
       /\ \E i \in 1 .. Len(rows) : rows[i][c].k = "null"
    THEN FloatV(v.n) ELSE v

DataFrame(cols, rows) ==
    [ cols |-> cols,
      rows |-> [i \in 1 .. Len(rows) |->
                  [c \in Range(cols) |-> Promote(rows, c, rows[i][c])]] ]

EmptyFrame == [cols |-> <<>>, rows |-> <<>>]

(* ------------------------------- random ------------------------------- *)

\* random.Random(seed): the seed scrambled into the 16-bit state
Seeded(seed) == (seed * 7919 + 104729) % 65536

\* the state after one draw
Step(st) == (25173 * st + 13849) % 65536

\* the 12 high bits of the state after the draw
Bits(st) == Step(st) \div 16

\* rng._randbelow(n): the value drawn from state st
RandBelow(st, n) == Bits(st) % n

\* rng.random() < pct / 100, random() being Bits / 4096
Chance(st, pct) == Bits(st) * 100 < pct * 4096

\* rng.choice(seq)
Choice(st, seq) == seq[RandBelow(st, Len(seq)) + 1]

(* ------------------------------ generator ----------------------------- *)

P_spaces == 20
P_null_color == 18
P_year_text == 15
P_msrp_currency == 12
P_msrp_placeholder == 10
P_trim == 14
P_transmission == 12
P_fuel == 10
P_null_infotainment == 8

MsrpStart == 22000
MsrpStop == 70000
MsrpStep == 500
YearStart == 2013
YearStop == 2024

\* f"C{idx+1:03}"
CarId(idx) == <<67>> \o Pad3(idx + 1)

\* f" {model}  "
Spaced(s) == <<32>> \o s \o <<32, 32>>

\* the year abbreviated, as in '15
YearAsShortText(n) == <<39>> \o Str(n % 100)

\* str(row["model_year"])
YearAsText(n) == Str(n)

\* f"${msrp:,}"
Currency(n) == <<36>> \o Commas(n)

\* max(2, rows // 6)
DuplicateRowsNeeded(rows) == IF rows \div 6 > 2 THEN rows \div 6 ELSE 2

\* the duplicates added on top of rows base records
BaseRowsNotReduced(rows) == rows

\* rows - duplicate_rows_needed
BaseRows(rows) == rows - DuplicateRowsNeeded(rows)

\* one pass of the loop body: the row for idx and the state after its draws
BaseRow(idx, s0) ==
    LET mk    == RandBelow(s0, Len(makes)) + 1
        s1    == Step(s0)
        model == Choice(s1, models_by_make[mk])
        s2    == Step(s1)
        msrp  == MsrpStart + MsrpStep * RandBelow(s2, (MsrpStop - MsrpStart) \div MsrpStep)
        s3    == Step(s2)
        year  == YearStart + RandBelow(s3, YearStop - YearStart)
        s4    == Step(s3)
        trim  == Choice(s4, trims)
        s5    == Step(s4)
        color == Choice(s5, colors)
        s6    == Step(s5)
        trans == Choice(s6, transmissions)
        s7    == Step(s6)
        fuel  == Choice(s7, fuels)
        s8    == Step(s7)
        info  == Choice(s8, infotainment)
        s9    == Step(s8)
        \* the defects, each behind its own draw
        spaces  == Chance(s9, P_spaces)
        s10     == Step(s9)
        nocolor == Chance(s10, P_null_color)
        s11     == Step(s10)
        yeartxt == Chance(s11, P_year_text)
        s12     == Step(s11)
        cur     == Chance(s12, P_msrp_currency)
        s13     == Step(s12)
        na      == Chance(s13, P_msrp_placeholder)
        s14     == Step(s13)
        badtrim == Chance(s14, P_trim)
        s15     == IF badtrim THEN Step(Step(s14)) ELSE Step(s14)
        trim2   == IF badtrim
                   THEN Choice(Step(s14), trim_misspellings \o <<trim>>)
                   ELSE trim
        badtr   == Chance(s15, P_transmission)
        s16     == IF badtr THEN Step(Step(s15)) ELSE Step(s15)
        trans2  == IF badtr THEN Choice(Step(s15), transmission_variants) ELSE trans
        badfuel == Chance(s16, P_fuel)
        s17     == IF badfuel THEN Step(Step(s16)) ELSE Step(s16)
        fuel2   == IF badfuel
                   THEN Choice(Step(s16), fuel_misspellings \o <<fuel>>)
                   ELSE fuel
        noinfo  == Chance(s17, P_null_infotainment)
        s18     == Step(s17)
    IN  [ row |->
            [ car_id |-> StrV(CarId(idx)),
              make |-> StrV(makes[mk]),
              model |-> StrV(IF spaces THEN Spaced(model) ELSE model),
              model_year |-> IF yeartxt THEN StrV(YearAsText(year)) ELSE IntV(year),
              trim_level |-> StrV(trim2),
              exterior_color |-> IF nocolor THEN Null ELSE StrV(color),
              transmission |-> StrV(trans2),
              fuel_type |-> StrV(fuel2),
              infotainment_system |-> IF noinfo THEN Null ELSE StrV(info),
              msrp |-> IF na THEN StrV(NA)
                       ELSE IF cur THEN StrV(Currency(msrp)) ELSE IntV(msrp) ],
          rng |-> s18 ]

\* for idx in range(base_rows): data.append(row)
RECURSIVE BaseLoop(_, _, _, _)
BaseLoop(idx, n, data, st) ==
    IF idx >= n THEN [data |-> data, rng |-> st]
    ELSE Only({BaseLoop(idx + 1, n, Append(data, b.row), b.rng) :
                  b \in {BaseRow(idx, st)}})

\* a copy that is given an id of its own
CopyRowRenumbered(row) == [row EXCEPT !.car_id = StrV(<<68>> \o row.car_id.s)]

\* duplicate_row.copy()
CopyRow(row) == row

\* for _ in range(duplicate_rows_needed): data.append(rng.choice(data).copy());
\* rng.choice of an empty list raises IndexError
RECURSIVE DuplicateLoop(_, _, _)
DuplicateLoop(k, data, st) ==
    IF k = 0 THEN [err |-> "none", data |-> data, rng |-> st]
    ELSE IF data = <<>> THEN [err |-> "IndexError", data |-> data, rng |-> st]
    ELSE Only({DuplicateLoop(k - 1, longer, s) :
                  longer \in {Append(data, CopyRow(Choice(st, data)))},
                  s \in {Step(st)}})

\* x[i], x[j] = x[j], x[i] (1-based)
Swap(x, i, j) == [x EXCEPT ![i] = x[j], ![j] = x[i]]

\* rng.shuffle(x): for i in reversed(range(1, len(x))): j = randbelow(i + 1); swap
RECURSIVE ShuffleFrom(_, _, _)
ShuffleFrom(i, x, st) ==
    IF i < 1 THEN [data |-> x, rng |-> st]
    ELSE Only({ShuffleFrom(i - 1, y, s) :
                  y \in {Swap(x, i + 1, RandBelow(st, i + 1) + 1)},
                  s \in {Step(st)}})

Shuffle(x, st) == ShuffleFrom(Len(x) - 1, x, st)

\* one rng for the module, seeded by the first call and shared by the next
SharedRng(seed, carried) == IF carried = 0 THEN Seeded(seed) ELSE carried

\* the rng the call draws from
InitialRng(seed, carried) == Seeded(seed)

\* generate_raw_car_equipment_data(rows, seed), started with the rng state a
\* former call left behind (which it does not read)
Generate(rows, seed, carried) ==
    Only({ IF dups.err # "none"
           THEN [ called |-> TRUE, rows |-> rows, seed |-> seed, err |-> dups.err,
                  data |-> dups.data, table |-> EmptyFrame, rng |-> dups.rng ]
           ELSE Only({ [ called |-> TRUE, rows |-> rows, seed |-> seed,
                         err |-> "none", data |-> dups.data,
                         table |-> DataFrame(Columns, shuf.data),
                         rng |-> shuf.rng ] :
                       shuf \in {Shuffle(dups.data, dups.rng)} }) :
           dups \in { Only({ DuplicateLoop(DuplicateRowsNeeded(rows), base.data, base.rng) :
                             base \in {BaseLoop(0, BaseRows(rows), <<>>,
                                                InitialRng(seed, carried))} }) } })

NoCall ==
    [ called |-> FALSE, rows |-> 0, seed |-> 0, err |-> "none",
      data |-> <<>>, table |-> EmptyFrame, rng |-> 0 ]

(* ------------------------------ diagnoser ----------------------------- *)

\* EXPECTED_VALUES, in the order of the dict literal
ExpectedColumns == <<"trim_level", "transmission", "fuel_type">>

EXPECTED_VALUES ==
    [ trim_level |-> Range(trims),
      transmission |-> Range(transmissions),
      fuel_type |-> Range(fuels) ]

\* one line of the report: the fixed text (tag) and what is formatted into it
Line(tag, col, n, text, items, pairs) ==
    [tag |-> tag, col |-> col, n |-> n, text |-> text, items |-> items, pairs |-> pairs]

PlainLine(tag) == Line(tag, "", 0, "", <<>>, <<>>)
CountLine(tag, n) == Line(tag, "", n, "", <<>>, <<>>)

\* df.duplicated(): a row equal, field for field, to an earlier row
Duplicated(rows, i) == \E j \in 1 .. i - 1 : rows[j] = rows[i]

\* int(df.duplicated().sum())
DuplicateCount(rows) == Cardinality({i \in 1 .. Len(rows) : Duplicated(rows, i)})

\* df.isna().sum()[c]
NullCount(rows, c) == Cardinality({i \in 1 .. Len(rows) : rows[i][c].k = "null"})

\* every column listed, whatever its count
HasNullsUnfiltered(rows, c) == TRUE

HasNulls(rows, c) == NullCount(rows, c) > 0

\* the null summary line
NullLine(df) ==
    LET Test(c) == HasNulls(df.rows, c)
        null_columns == SelectSeq(df.cols, Test)
    IN  IF null_columns # <<>>
        THEN Line("- Columns containing null values: ", "", 0, "", <<>>,
                  [i \in 1 .. Len(null_columns) |->
                     [col |-> null_columns[i],
                      count |-> NullCount(df.rows, null_columns[i])]])
        ELSE Line("- Columns containing null values: ", "", 0, "none", <<>>, <<>>)

\* {type(val).__name__ for val in df[column].dropna()}
DistinctTypes(rows, c) ==
    {TypeName(rows[i][c]) : i \in {j \in 1 .. Len(rows) : rows[j][c].k # "null"}}

IsMixed(rows, c) == Cardinality(DistinctTypes(rows, c)) > 1

MixedLines(df) ==
    LET Test(c) == IsMixed(df.rows, c)
        mixed == SelectSeq(df.cols, Test)
    IN  [i \in 1 .. Len(mixed) |->
           Line("- Mixed data types in ", mixed[i], 0, "",
                Sorted(DistinctTypes(df.rows, mixed[i])), <<>>)]

\* the values of the column that are str and differ from their strip()
TrimmedMismatch(rows, c) ==
    {i \in 1 .. Len(rows) : rows[i][c].k = "str" /\ rows[i][c].s # Strip(rows[i][c].s)}

\* a column of df.select_dtypes(include="object") with such a value
HasStringIssue(rows, c) ==
    /\ \/ \E i \in 1 .. Len(rows) : rows[i][c].k = "str"
       \/ \A i \in 1 .. Len(rows) : rows[i][c].k = "null"
    /\ TrimmedMismatch(rows, c) # {}

StringIssueLines(df) ==
    LET Test(c) == HasStringIssue(df.rows, c)
        cols == SelectSeq(df.cols, Test)
    IN  [i \in 1 .. Len(cols) |->
           Line("- values have leading/trailing spaces in ", cols[i],
                Cardinality(TrimmedMismatch(df.rows, cols[i])), "", <<>>, <<>>)]

\* the value compared after strip() and lower()
InExpectedNormalized(c, s) ==
    \E e \in EXPECTED_VALUES[c] : Lower(Strip(s)) = Lower(e)

\* value not in expected
InExpected(c, s) == s \in EXPECTED_VALUES[c]

\* the offenders of a categorical column
UnexpectedValues(rows, c) ==
    {TypeName(rows[i][c]) :
        i \in {j \in 1 .. Len(rows) : rows[j][c].k \in {"int", "float"}}}
    \cup
    {rows[i][c].s :
        i \in {j \in 1 .. Len(rows) :
                 rows[j][c].k = "str" /\ ~InExpected(c, rows[j][c].s)}}

UnexpectedLines(df) ==
    LET Test(c) == c \in Range(df.cols) /\ UnexpectedValues(df.rows, c) # {}
        cols == SelectSeq(ExpectedColumns, Test)
    IN  [i \in 1 .. Len(cols) |->
           Line("- Unexpected values in ", cols[i], 0, "",
                Sorted(UnexpectedValues(df.rows, cols[i])), <<>>)]

Digits == 48 .. 57

\* a str that parses as a number: an optional sign, digits, at most one point
IsNumericText(s) ==
    LET body == IF s # <<>> /\ Head(s) \in {43, 45} THEN Tail(s) ELSE s
    IN  /\ \E i \in 1 .. Len(body) : body[i] \in Digits
        /\ \A i \in 1 .. Len(body) : body[i] \in Digits \cup {46}
        /\ Cardinality({i \in 1 .. Len(body) : body[i] = 46}) <= 1

\* a coercion that reads currency text as a number: only text without a
\* digit, and a null, come out NaN
CoercesToNaNLenient(v) ==
    \/ v.k = "null"
    \/ v.k = "str" /\ \A i \in 1 .. Len(v.s) : v.s[i] \notin Digits

\* pd.to_numeric(value, errors="coerce") is NaN
CoercesToNaN(v) ==
    \/ v.k = "null"
    \/ v.k = "str" /\ ~IsNumericText(v.s)

\* int(pd.to_numeric(df[c], errors="coerce").isna().sum())
NonNumericCount(rows, c) ==
    Cardinality({i \in 1 .. Len(rows) : CoercesToNaN(rows[i][c])})

MsrpLines(df) ==
    IF "msrp" \in Range(df.cols) /\ NonNumericCount(df.rows, "msrp") # 0
    THEN <<CountLine("- 'msrp' contains non-numeric values", NonNumericCount(df.rows, "msrp"))>>
    ELSE <<>>

ModelYearLines(df) ==
    IF "model_year" \in Range(df.cols) /\ NonNumericCount(df.rows, "model_year") # 0
    THEN <<PlainLine("- 'model_year' includes non-numeric entries")>>
    ELSE <<>>

\* report_lines of diagnose_generated_data, for the loaded table
ReportLines(df) ==
    << PlainLine("Data diagnosis report"),
       CountLine("- Rows: ", Len(df.rows)),
       CountLine("- Columns: ", Len(df.cols)),
       CountLine("- Duplicate rows detected: ", DuplicateCount(df.rows)),
       NullLine(df) >>
    \o MixedLines(df)
    \o StringIssueLines(df)
    \o UnexpectedLines(df)
    \o MsrpLines(df)
    \o ModelYearLines(df)

(* --------------------------- loading a source ------------------------- *)

Suffix_csv == <<46, 99, 115, 118>>        \* '.csv'
Suffix_CSV == <<46, 67, 83, 86>>          \* '.CSV'
Suffix_py == <<46, 112, 121>>             \* '.py'
Suffix_txt == <<46, 116, 120, 116>>       \* '.txt'
Suffix_none == <<>>                       \* no extension: 'data_generation'

\* the places _resolve_candidate_path looks at, and the import
Places == {"literal", "script_dir", "parent"}

\* the script's directory tried before the literal path
CandidatesScriptDirFirst(absolute) ==
    IF absolute THEN <<"literal">> ELSE <<"script_dir", "literal", "parent">>

\* candidates, in the order they are appended
Candidates(absolute) ==
    IF absolute THEN <<"literal">> ELSE <<"literal", "script_dir", "parent">>

\* for candidate in candidates: if candidate.exists(): return candidate
RECURSIVE FirstExisting(_, _)
FirstExisting(candidates, exists) ==
    IF candidates = <<>> THEN "none"
    ELSE IF Head(candidates) \in exists THEN Head(candidates)
    ELSE FirstExisting(Tail(candidates), exists)

\* _resolve_candidate_path(source): the first existing candidate, or "none"
ResolveCandidatePath(absolute, exists) == FirstExisting(Candidates(absolute), exists)

\* the defaults of generate_raw_car_equipment_data in the repository's module
DefaultRows == 30
DefaultSeed == 7

\* module.generate_raw_car_equipment_data(): the module's generator called
\* with its own defaults
CallGenerator(module) ==
    Only({ [err |-> g.err, df |-> g.table, gen |-> g] :
           g \in {Generate(module.rows, module.seed, 0)} })

\* the part of _load_dataframe after the module is in hand
FromModule(module) ==
    IF ~module.hasFn
    THEN [err |-> "AttributeError", df |-> EmptyFrame, gen |-> NoCall]
    ELSE CallGenerator(module)

\* _load_dataframe(source) in an environment: which candidates exist, whether
\* the name imports, and what the source holds (a table for a CSV file, a
\* module for a Python file or an import)
LoadDataframe(src, env) ==
    LET resolved == ResolveCandidatePath(src.absolute, env.exists)
    IN  Only({ [ resolved |-> resolved, imported |-> (resolved = "none"),
                 err |-> r.err, df |-> r.df, gen |-> r.gen ] :
               r \in { IF resolved # "none"
                       THEN IF Lower(src.suffix) = Suffix_csv
                            THEN [err |-> "none", df |-> env.table, gen |-> NoCall]
                            ELSE IF Lower(src.suffix) = Suffix_py
                            THEN FromModule(env.module)
                            ELSE [err |-> "ValueError", df |-> EmptyFrame, gen |-> NoCall]
                       ELSE IF ~env.importable
                            THEN [err |-> "ModuleNotFoundError", df |-> EmptyFrame,
                                  gen |-> NoCall]
                            ELSE FromModule(env.module) } })

\* the title printed before the source is loaded
PrintedBeforeLoad(load) ==
    IF load.err # "none" THEN <<PlainLine("Data diagnosis report")>>
    ELSE ReportLines(load.df) \o <<PlainLine("Report saved to ")>>

\* what diagnose_generated_data prints: nothing when loading raised
Printed(load) ==
    IF load.err # "none" THEN <<>>
    ELSE ReportLines(load.df) \o <<PlainLine("Report saved to ")>>

\* the directory it creates (mkdir(parents=True, exist_ok=True))
CreatedDirs(load, report_path) ==
    IF load.err # "none" THEN {}
    ELSE IF report_path = "None" THEN {"generated_data"}
    ELSE {"parent of report_path"}

\* the report file it writes: report_text + "\n", or nothing
Written(load, report_path) ==
    IF load.err # "none" THEN [path |-> "", lines |-> <<>>]
    ELSE [ path |-> IF report_path = "None"
                    THEN "generated_data/diagnosis_report_<timestamp>.txt"
                    ELSE report_path,
           lines |-> ReportLines(load.df) ]

\* diagnose_generated_data(source, report_path)
Diagnosis(src, report_path, env) ==
    Only({ [ called |-> TRUE, src |-> src, report_path |-> report_path,
             exists |-> env.exists, importable |-> env.importable,
             resolved |-> load.resolved, imported |-> load.imported,
             hasFn |-> env.module.hasFn,
             err |-> load.err, df |-> load.df, gen |-> load.gen,
             stdout |-> Printed(load),
             dirs |-> CreatedDirs(load, report_path),
             file |-> Written(load, report_path) ] :
           load \in {LoadDataframe(src, env)} })

NoRun ==
    [ called |-> FALSE, src |-> [suffix |-> <<>>, absolute |-> FALSE],
      report_path |-> "None", exists |-> {}, importable |-> FALSE,
      resolved |-> "none", imported |-> FALSE, hasFn |-> FALSE, err |-> "none",
      df |-> EmptyFrame, gen |-> NoCall, stdout |-> <<>>, dirs |-> {},
      file |-> [path |-> "", lines |-> <<>>] ]

(* ----------------------------- environments --------------------------- *)

\* how diagnose_generated_data may be called
Sources ==
    [ suffix : {Suffix_csv, Suffix_CSV, Suffix_py, Suffix_txt, Suffix_none},
      absolute : BOOLEAN ]

ReportPaths == {"None", "out/report.txt"}

\* the modules a Python source may hold: generators with defaults in the
\* bounds, the repository's own, and one without the entry point
RepositoryModule == [hasFn |-> TRUE, rows |-> DefaultRows, seed |-> DefaultSeed]

Modules ==
    [hasFn : {TRUE}, rows : 0 .. MaxRows, seed : 0 .. MaxSeed]
    \cup {RepositoryModule, [hasFn |-> FALSE, rows |-> 0, seed |-> 0]}

\* rows of a CSV file as pd.read_csv returns them: a column holds ints only,
\* or strs and nulls (an "N/A" or empty cell is read as a null)
RowA1 ==
    [ car_id |-> StrV(CarId(0)), make |-> StrV(makes[1]),
      model |-> StrV(models_by_make[1][1]), model_year |-> IntV(2015),
      trim_level |-> StrV(trims[1]), exterior_color |-> StrV(colors[1]),
      transmission |-> StrV(transmissions[1]), fuel_type |-> StrV(fuels[1]),
      infotainment_system |-> StrV(infotainment[1]), msrp |-> StrV(Str(22000)) ]

RowA2 ==
    [ car_id |-> StrV(CarId(1)), make |-> StrV(makes[2]),
      model |-> StrV(Spaced(models_by_make[2][1])), model_year |-> IntV(2016),
      trim_level |-> StrV(trim_misspellings[3]), exterior_color |-> Null,
      transmission |-> StrV(transmission_variants[4]),
      fuel_type |-> StrV(fuels[2]),
      infotainment_system |-> StrV(infotainment[2]), msrp |-> Null ]

RowA3 ==
    [ car_id |-> StrV(CarId(2)), make |-> StrV(makes[3]),
      model |-> StrV(models_by_make[3][2]), model_year |-> IntV(2020),
      trim_level |-> Null, exterior_color |-> StrV(colors[3]),
      transmission |-> StrV(transmission_variants[3]),
      fuel_type |-> StrV(fuels[4]),
      infotainment_system |-> Null, msrp |-> StrV(Currency(25000)) ]

\* a file whose trim_level and msrp are numbers and whose years are text
RowB1 ==
    [ car_id |-> StrV(CarId(0)), make |-> StrV(makes[4]),
      model |-> StrV(models_by_make[4][1]), model_year |-> StrV(<<110, 47, 97>>),
      trim_level |-> IntV(3), exterior_color |-> StrV(colors[2]),
      transmission |-> StrV(transmissions[2]), fuel_type |-> StrV(fuel_misspellings[2]),
      infotainment_system |-> StrV(infotainment[3]), msrp |-> IntV(30000) ]

RowB2 ==
    [ car_id |-> StrV(CarId(1)), make |-> StrV(makes[5]),
      model |-> StrV(models_by_make[5][2]), model_year |-> StrV(Str(2019)),
      trim_level |-> Null, exterior_color |-> StrV(colors[4]),
      transmission |-> StrV(transmissions[3]), fuel_type |-> StrV(fuels[3]),
      infotainment_system |-> StrV(infotainment[4]), msrp |-> Null ]

\* every list of at most MaxCsvRows rows over a set of rows
MaxCsvRows == 2

ListsOver(S) == UNION {[1 .. n -> S] : n \in 0 .. MaxCsvRows}

ColumnsWithout(drop) ==
    LET Keep(c) == c \notin drop IN SelectSeq(Columns, Keep)

\* the tables a CSV source may hold: the full schema, and files that lack
\* the msrp, model_year and trim_level columns
SampleTables ==
    {DataFrame(Columns, rows) :
        rows \in ListsOver({RowA1, RowA2, RowA3}) \cup ListsOver({RowB1, RowB2})}
    \cup
    {DataFrame(ColumnsWithout({"msrp", "model_year", "trim_level"}), rows) :
        rows \in ListsOver({RowA1, RowA2})}

\* the environments of a run: every set of existing candidates with the
\* repository's module, the module without the entry point and every CSV
\* table; every module where the first candidate exists or none does
Envs ==
    [ exists : SUBSET Places, importable : BOOLEAN,
      module : {RepositoryModule, [hasFn |-> FALSE, rows |-> 0, seed |-> 0]},
      table : {EmptyFrame} ]
    \cup
    [ exists : {{}, {"literal"}}, importable : {TRUE},
      module : Modules, table : {EmptyFrame} ]
    \cup
    [ exists : SUBSET Places, importable : BOOLEAN,
      module : {RepositoryModule}, table : SampleTables ]

(* ------------------------------- actions ------------------------------ *)

Init ==
    /\ prog = "none"
    /\ last = NoCall
    /\ prev = NoCall
    /\ run = NoRun

\* a generator process calls generate_raw_car_equipment_data(rows, seed),
\* and may call it once more
CallGenerate(rows, seed) ==
    /\ prog \in {"none", "generator"}
    /\ ~prev.called
    /\ prog' = "generator"
    /\ prev' = last
    /\ last' = Generate(rows, seed, last.rng)
    /\ UNCHANGED run

\* a diagnoser process runs diagnose_generated_data(source, report_path)
Diagnose(src, report_path, env) ==
    /\ prog = "none"
    /\ prog' = "diagnoser"
    /\ run' = Diagnosis(src, report_path, env)
    /\ UNCHANGED <<last, prev>>

Next ==
    \/ \E rows \in 0 .. MaxRows, seed \in 0 .. MaxSeed : CallGenerate(rows, seed)
    \/ \E src \in Sources, report_path \in ReportPaths, env \in Envs :
          Diagnose(src, report_path, env)

Spec == Init /\ [][Next]_vars

(* ------------------------------- claims ------------------------------- *)

\* every call of the generator the state holds a result of
Calls == {g \in {last, prev, run.gen} : g.called}

\* a run of the diagnoser that loaded its table
Reported == run.called /\ run.err = "none"

\* the lines of the report with a given fixed text, and for a given column
LinesTagged(tag) == {i \in 1 .. Len(run.stdout) : run.stdout[i].tag = tag}

LinesFor(tag, c) == {i \in LinesTagged(tag) : run.stdout[i].col = c}

\* the values of a column of the loaded table
Cells(c) == {run.df.rows[i][c] : i \in 1 .. Len(run.df.rows)}

\* C1: two calls of generate with the same (rows, seed) return the same
\* result, row for row and field for field, whatever the first call left behind
C1_SameArgumentsSameTable ==
    (prev.called /\ last.called /\ prev.rows = last.rows /\ prev.seed = last.seed)
        => /\ last.err = prev.err
           /\ last.data = prev.data
           /\ last.table = prev.table

C1_Witness ==
    /\ prev.called /\ last.called
    /\ prev.rows = last.rows /\ prev.seed = last.seed
    /\ last.err = "none" /\ Len(last.table.rows) >= 12
    /\ last.rng # Seeded(last.seed)

\* C2: for rows >= 12 the table holds max(2, rows \div 6) rows equal to an
\* earlier row, at least 2, before the shuffle and after it
C2_DuplicatedRows ==
    \A g \in Calls :
        g.rows >= 12 =>
            LET needed == IF g.rows \div 6 > 2 THEN g.rows \div 6 ELSE 2
            IN  /\ g.err = "none"
                /\ DuplicateCount(g.table.rows) = needed
                /\ DuplicateCount(g.table.rows) >= 2
                /\ DuplicateCount(g.data) = DuplicateCount(g.table.rows)
                /\ \A i \in 1 .. Len(g.table.rows) :
                      Duplicated(g.table.rows, i) =>
                          \E j \in 1 .. i - 1 :
                              \A c \in Range(Columns) :
                                  g.table.rows[j][c] = g.table.rows[i][c]

C2_Witness ==
    \E g \in Calls :
        /\ g.rows = DefaultRows /\ g.err = "none"
        /\ DuplicateCount(g.table.rows) = 5
        /\ g.table.rows # g.data

\* C3: for every rows in 1 .. 11 the call completes and the table holds a
\* duplicated row
C3_SmallRowCounts ==
    \A g \in Calls :
        g.rows \in 1 .. 11 =>
            g.err = "none" /\ DuplicateCount(g.table.rows) >= 1

\* C4: for rows >= 3 the table has exactly rows rows, the base records plus
\* the copies, and the diagnoser run on it reports "- Rows: <rows>" and a
\* duplicate count of at least 1
C4_RoundTrip ==
    /\ \A g \in Calls :
          g.rows >= 3 =>
              LET needed == IF g.rows \div 6 > 2 THEN g.rows \div 6 ELSE 2
              IN  /\ g.err = "none"
                  /\ Len(g.table.rows) = g.rows
                  /\ Cardinality(Range(g.table.rows)) = g.rows - needed
    /\ (run.called /\ run.gen.called /\ run.gen.rows >= 3) =>
          /\ run.err = "none"
          /\ run.df = run.gen.table
          /\ run.stdout[2] = CountLine("- Rows: ", run.gen.rows)
          /\ run.stdout[4].tag = "- Duplicate rows detected: "
          /\ run.stdout[4].n >= 1
          /\ run.file.lines[2] = CountLine("- Rows: ", run.gen.rows)
          /\ run.file.lines[4] = run.stdout[4]

C4_Witness ==
    /\ Reported /\ run.gen.called
    /\ run.gen.rows = DefaultRows /\ run.gen.seed = DefaultSeed
    /\ run.stdout[2] = CountLine("- Rows: ", 30)
    /\ run.stdout[4].n >= 1

\* C5: the resolved path is the first existing one of the literal path, the
\* path under the script's directory and the path under its parent (the
\* path alone when it is absolute); the import is attempted only when none
\* exists, so a name that is both a file and a module loads the file
C5_ResolutionOrder ==
    run.called =>
        LET expected ==
                IF "literal" \in run.exists THEN "literal"
                ELSE IF run.src.absolute THEN "none"
                ELSE IF "script_dir" \in run.exists THEN "script_dir"
                ELSE IF "parent" \in run.exists THEN "parent"
                ELSE "none"
        IN  /\ run.resolved = expected
            /\ run.imported <=> (expected = "none")
            /\ (expected # "none" /\ run.importable) => ~run.imported

C5_Witness ==
    /\ Reported /\ ~run.src.absolute
    /\ run.exists = {"literal", "script_dir", "parent"} /\ run.importable
    /\ run.resolved = "literal" /\ ~run.imported
    /\ Len(run.df.rows) > 0

\* C6: when the source is neither an existing path nor importable, or is an
\* existing path of another extension than .csv and .py, or is a module
\* without the entry point, the run raises and has printed nothing, created
\* no directory and written no file
C6_LoadFailureIsFatal ==
    run.called =>
        LET found == run.resolved # "none"
            suffix == Lower(run.src.suffix)
            unresolved == ~found /\ ~run.importable
            unsupported == found /\ suffix \notin {Suffix_csv, Suffix_py}
            module == (found /\ suffix = Suffix_py) \/ (~found /\ run.importable)
            noEntryPoint == module /\ ~run.hasFn
        IN  /\ unresolved => run.err = "ModuleNotFoundError"
            /\ unsupported => run.err = "ValueError"
            /\ noEntryPoint => run.err = "AttributeError"
            /\ run.err # "none" =>
                  /\ run.stdout = <<>>
                  /\ run.dirs = {}
                  /\ run.file.lines = <<>>

C6_Witness ==
    /\ run.called /\ run.err = "AttributeError"
    /\ run.resolved = "parent" /\ run.src.suffix = Suffix_py
    /\ run.stdout = <<>> /\ run.dirs = {}

\* C7: with an msrp column, the line "'msrp' contains N non-numeric values"
\* is there exactly when some msrp value does not coerce to a number, and N
\* is the number of those values over the whole column; "N/A" gives N > 0
C7_MsrpCount ==
    (Reported /\ "msrp" \in Range(run.df.cols)) =>
        LET rows == run.df.rows
            Fails(v) == v.k \notin {"int", "float"}
                        /\ ~(v.k = "str" /\ IsNumericText(v.s))
            N == Cardinality({i \in 1 .. Len(rows) : Fails(rows[i]["msrp"])})
            lines == LinesTagged("- 'msrp' contains non-numeric values")
        IN  /\ N = 0 => lines = {}
            /\ N > 0 => /\ Cardinality(lines) = 1
                        /\ \A i \in lines : run.stdout[i].n = N
            /\ StrV(NA) \in Cells("msrp") => \E i \in lines : run.stdout[i].n > 0

C7_Witness ==
    /\ Reported
    /\ "msrp" \in Range(run.df.cols)
    /\ StrV(NA) \in Cells("msrp")
    /\ \E v \in Cells("msrp") : v.k = "str" /\ v.s # <<>> /\ Head(v.s) = 36
    /\ \E v \in Cells("msrp") : v.k = "int"
    /\ \E i \in LinesTagged("- 'msrp' contains non-numeric values") :
          run.stdout[i].n >= 2 /\ run.stdout[i].n < Len(run.df.rows)

\* C8: for trim_level, transmission and fuel_type, the line "Unexpected
\* values in '<column>'" lists, once each and sorted, exactly the non-null
\* values outside the column's vocabulary (compared exactly) with the type
\* name in place of a value that is no str; no offender, no line
C8_UnexpectedValues ==
    Reported =>
        \A c \in Range(ExpectedColumns) :
            LET lines == LinesFor("- Unexpected values in ", c)
                vocabulary ==
                    IF c = "trim_level" THEN Range(trims)
                    ELSE IF c = "transmission" THEN Range(transmissions)
                    ELSE Range(fuels)
                offenders ==
                    IF c \notin Range(run.df.cols) THEN {}
                    ELSE {v.s : v \in {w \in Cells(c) :
                                          w.k = "str" /\ w.s \notin vocabulary}}
                         \cup {int_name : v \in {w \in Cells(c) : w.k = "int"}}
                         \cup {float_name : v \in {w \in Cells(c) : w.k = "float"}}
            IN  /\ offenders = {} => lines = {}
                /\ offenders # {} =>
                      /\ Cardinality(lines) = 1
                      /\ \A i \in lines :
                            LET items == run.stdout[i].items
                            IN  /\ Range(items) = offenders
                                /\ Len(items) = Cardinality(offenders)
                                /\ \A a \in 1 .. Len(items) - 1 :
                                      StrLess(items[a], items[a + 1])

C8_Witness ==
    /\ Reported
    /\ "trim_level" \in Range(run.df.cols)
    /\ StrV(trim_misspellings[3]) \in Cells("trim_level")
    /\ \E i \in LinesFor("- Unexpected values in ", "trim_level") :
          trim_misspellings[3] \in Range(run.stdout[i].items)
    /\ \E i \in LinesFor("- Unexpected values in ", "transmission") :
          /\ transmission_variants[3] \in Range(run.stdout[i].items)
          /\ transmission_variants[4] \in Range(run.stdout[i].items)
    /\ LinesFor("- Unexpected values in ", "fuel_type") = {}

\* C9: the report has exactly one null-summary line: "none" when no column
\* holds a null, else the pairs column (count) of exactly the columns with a
\* null, in column order, each with its number of nulls
C9_NullSummary ==
    Reported =>
        LET lines == LinesTagged("- Columns containing null values: ")
            rows == run.df.rows
            cols == run.df.cols
            Nulls(c) == Cardinality({i \in 1 .. Len(rows) : rows[i][c] = Null})
            withNulls == {c \in Range(cols) : Nulls(c) > 0}
            Position(c) == CHOOSE i \in 1 .. Len(cols) : cols[i] = c
        IN  /\ Cardinality(lines) = 1
            /\ \A i \in lines :
                  LET line == run.stdout[i]
                  IN  /\ withNulls = {} => line.text = "none" /\ line.pairs = <<>>
                      /\ withNulls # {} =>
                            /\ line.text = ""
                            /\ Len(line.pairs) = Cardinality(withNulls)
                            /\ {line.pairs[a].col : a \in 1 .. Len(line.pairs)} = withNulls
                            /\ \A a \in 1 .. Len(line.pairs) :
                                  line.pairs[a].count = Nulls(line.pairs[a].col)
                            /\ \A a \in 1 .. Len(line.pairs) - 1 :
                                  Position(line.pairs[a].col)
                                      < Position(line.pairs[a + 1].col)

C9_Witness ==
    /\ Reported
    /\ Len(run.df.rows) > 0
    /\ \A c \in Range(run.df.cols) : Null \notin Cells(c)
    /\ \E i \in 1 .. Len(run.stdout) :
          run.stdout[i] =
              Line("- Columns containing null values: ", "", 0, "none", <<>>, <<>>)

C9_WitnessPairs ==
    /\ Reported
    /\ \E i \in LinesTagged("- Columns containing null values: ") :
          Len(run.stdout[i].pairs) >= 2

\* C10: on a generated table diagnosed in memory the model_year coercion
\* line is never emitted, and "Mixed data types in 'model_year': int, str"
\* is emitted exactly when the table holds a numeric and a textual year
C10_ModelYear ==
    (Reported /\ run.gen.called) =>
        LET mixed == LinesFor("- Mixed data types in ", "model_year")
            both == /\ \E v \in Cells("model_year") : v.k = "int"
                    /\ \E v \in Cells("model_year") : v.k = "str"
        IN  /\ LinesTagged("- 'model_year' includes non-numeric entries") = {}
            /\ both <=> mixed # {}
            /\ Cardinality(mixed) <= 1
            /\ \A i \in mixed : run.stdout[i].items = <<int_name, str_name>>
            /\ \A v \in Cells("model_year") :
                  v.k = "str" => /\ v.s # <<>>
                                 /\ \A a \in 1 .. Len(v.s) : v.s[a] \in Digits

C10_Witness ==
    /\ Reported /\ run.gen.called
    /\ \E v \in Cells("model_year") : v.k = "int"
    /\ \E v \in Cells("model_year") : v.k = "str"
    /\ LinesFor("- Mixed data types in ", "model_year") # {}
    /\ LinesTagged("- 'model_year' includes non-numeric entries") = {}

====
